---- MODULE Spec2Model ----
(***************************************************************************)
(* Model of agents/disaster_agent.py: the hourly ingestion loop that       *)
(* fetches the seismic and the thermal feed, keeps the features inside the *)
(* India bounding box, normalizes them and upserts them into the           *)
(* "disasters" collection keyed on (coords, time).                         *)
(*                                                                         *)
(* Times are integers: milliseconds since the epoch, the resolution of a   *)
(* stored BSON datetime.  A Python None / absent JSON property is None.    *)
(***************************************************************************)
EXTENDS Integers, Sequences, FiniteSets, TLC

VARIABLES
    pc,          \* position of the process: fetch_eq, fetch_fire, normalize,
                 \* upsert, sleep, crashed (unhandled exception left the loop)
    eq_data,     \* run_pipeline: features of the seismic feed
    fire_data,   \* run_pipeline: features of the thermal feed
    all_events,  \* run_pipeline: earthquakes + fires, the batch given to upsert_events
    i,           \* upsert_events: index of the next record of the batch
    inserted,    \* upsert_events: the counter it returns
    store,       \* coll: the documents of the collection, in insertion order
    clock,       \* the wall clock read by datetime.now(timezone.utc)
    cycle,       \* number of the current cycle of the __main__ loop
    failed,      \* history: indices of the batch whose update_one raised
    store0,      \* history: the store when the current cycle began
    prev         \* history: the feeds and the final store of the previous cycle

vars == <<pc, eq_data, fire_data, all_events, i, inserted, store, clock, cycle,
          failed, store0, prev>>

\* A nullable value (a JSON property that may be absent or null, a Python None)
\* is None or Some(v).
None == << >>
Some(v) == <<v>>
\* The result of a call that raised instead of returning a record.
Raise == [type |-> "Raise"]

\* ------------------------------------------------------------------ bounds
MaxFeed == 2
MaxCycles == 2

\* ------------------------------------------------------------------ time
MsPerMinute == 60 * 1000
MsPerHour == 60 * MsPerMinute
MsPerDay == 24 * MsPerHour
SleepSeconds == 3600
Clock0 == 2 * MsPerDay

\* ------------------------------------------------------------------ helpers
in_india_strict(lat, lon) == (6 < lat /\ lat < 37) /\ (68 < lon /\ lon < 97)

in_india(lat, lon) == (6 <= lat /\ lat <= 37) /\ (68 <= lon /\ lon <= 97)

\* The filter of the two list comprehensions: in_india(coordinates[1], coordinates[0])
Kept(f) == in_india(f.coordinates[2], f.coordinates[1])

\* datetime.fromtimestamp(props["time"] / 1000, tz=utc), then stored at
\* millisecond resolution: whole seconds plus the millisecond remainder.
FromTimestamp(ms) == (ms \div 1000) * 1000 + (ms % 1000)

\* %Y-%m-%d on the date strings the model's feeds carry, as days since the
\* epoch; any other string does not match the pattern (None).
DateDays(s) ==
    CASE s = "1970-01-02" -> Some(1)
      [] s = "1970-01-03" -> Some(2)
      [] OTHER -> None

\* %H%M on a sequence of digits, as minutes of the day: %H is 2[0-3]|[0-1]\d|\d
\* and %M is [0-5]\d|\d, tried in that order, and the whole string must be
\* consumed; None when nothing matches.
HourMinute(t) ==
    LET n == Len(t)
        h2 == t[1] * 10 + t[2]
    IN  IF n = 4 /\ h2 <= 23 /\ t[3] <= 5 THEN Some(h2 * 60 + t[3] * 10 + t[4])
        ELSE IF n = 3 /\ h2 <= 23 THEN Some(h2 * 60 + t[3])
        ELSE IF n = 3 /\ t[2] <= 5 THEN Some(t[1] * 60 + t[2] * 10 + t[3])
        ELSE IF n = 2 THEN Some(t[1] * 60 + t[2])
        ELSE None

\* datetime.strptime(f"{acq_date} {acq_time}", "%Y-%m-%d %H%M").replace(tzinfo=utc);
\* None stands for the ValueError (an absent property formats as "None").
strptime(acq_date, acq_time) ==
    IF acq_date = None \/ acq_time = None THEN None
    ELSE IF DateDays(acq_date[1]) = None \/ HourMinute(acq_time[1]) = None THEN None
    ELSE Some(DateDays(acq_date[1])[1] * MsPerDay + HourMinute(acq_time[1])[1] * MsPerMinute)

normalize_usgs(event) ==
    IF event.time = None THEN Raise     \* props["time"]: KeyError
    ELSE [type |-> "earthquake",
          place |-> event.place,
          magnitude |-> event.mag,
          coords |-> <<event.coordinates[1], event.coordinates[2]>>,
          time |-> FromTimestamp(event.time[1])]

\* props.get("satellite") or "Unknown area": None and "" are falsy.
PlaceOf(satellite) ==
    IF satellite # None /\ satellite[1] # "" THEN satellite ELSE Some("Unknown area")

\* (float(brightness) / 100) if brightness else None: None and 0 are falsy.
\* Brightness values of the model are multiples of 100, so the division is exact.
MagnitudeOf(brightness) ==
    IF brightness # None /\ brightness[1] # 0 THEN Some(brightness[1] \div 100) ELSE None

normalize_firms_no_fallback(event, now) ==
    IF strptime(event.acq_date, event.acq_time) = None THEN Raise
    ELSE [type |-> "fire",
          place |-> PlaceOf(event.satellite),
          magnitude |-> MagnitudeOf(event.brightness),
          coords |-> <<event.coordinates[1], event.coordinates[2]>>,
          time |-> strptime(event.acq_date, event.acq_time)[1]]

\* now is what datetime.now(timezone.utc) returns if the except branch runs.
normalize_firms(event, now) ==
    LET parsed == strptime(event.acq_date, event.acq_time)
        event_time == IF parsed = None THEN now ELSE parsed[1]
    IN  [type |-> "fire",
         place |-> PlaceOf(event.satellite),
         magnitude |-> MagnitudeOf(event.brightness),
         coords |-> <<event.coordinates[1], event.coordinates[2]>>,
         time |-> event_time]

\* ------------------------------------------------------------------ store
Matches(doc, ev) == doc.coords = ev.coords /\ doc.time = ev.time

KeyIn(st, ev) == \E k \in 1..Len(st) : Matches(st[k], ev)

update_one_insert(st, ev) == Append(st, ev)

update_one_set(st, ev) ==
    IF KeyIn(st, ev)
      THEN LET k == CHOOSE j \in 1..Len(st) : Matches(st[j], ev) /\ \A m \in 1..(j-1) : ~Matches(st[m], ev)
           IN  [st EXCEPT ![k] = ev]
      ELSE Append(st, ev)

\* coll.update_one({"coords":..., "time":...}, {"$setOnInsert": ev}, upsert=True)
update_one(st, ev) == IF KeyIn(st, ev) THEN st ELSE Append(st, ev)

\* ------------------------------------------------------------------ feeds
\* 05:30 on 1970-01-02, the instant both an earthquake and a fire below carry.
T0 == MsPerDay + 330 * MsPerMinute

\* Features the seismic feed may deliver: geometry.coordinates = [lon, lat, depth]
\* and properties place, mag, time (epoch milliseconds).  Two lie just outside
\* the box, and one lacks its time.
EqPool ==
    { [coordinates |-> <<68, 6, 10>>, place |-> Some("Delhi"), mag |-> Some(4), time |-> Some(T0)],
      [coordinates |-> <<67, 6, 10>>, place |-> Some("Arabian Sea"), mag |-> Some(5), time |-> Some(T0)],
      [coordinates |-> <<68, 5, 10>>, place |-> None, mag |-> None, time |-> None],
      [coordinates |-> <<97, 37, 10>>, place |-> None, mag |-> None, time |-> None] }

\* Features the thermal feed may deliver: geometry.coordinates = [lon, lat] and
\* properties satellite, brightness, acq_date, acq_time (digits).  Two lie just
\* outside the box; two carry a date or a time that does not parse.
FirePool ==
    { [coordinates |-> <<68, 6>>, satellite |-> Some("Aqua"), brightness |-> Some(300),
       acq_date |-> Some("1970-01-02"), acq_time |-> Some(<<0, 5, 3, 0>>)],
      [coordinates |-> <<97, 37>>, satellite |-> Some(""), brightness |-> Some(0),
       acq_date |-> Some("1970-01-02"), acq_time |-> Some(<<2, 5, 0, 0>>)],
      [coordinates |-> <<98, 37>>, satellite |-> Some("Terra"), brightness |-> Some(400),
       acq_date |-> None, acq_time |-> None],
      [coordinates |-> <<97, 38>>, satellite |-> Some("Terra"), brightness |-> Some(400),
       acq_date |-> Some("1970-01-03"), acq_time |-> Some(<<5, 3, 0>>)],
      [coordinates |-> <<68, 6>>, satellite |-> None, brightness |-> None,
       acq_date |-> Some("not-a-date"), acq_time |-> Some(<<0, 5, 3, 0>>)] }

\* The feature lists a feed may return: sequences of at most MaxFeed features.
Feeds(pool) == UNION { [1..n -> pool] : n \in 0..MaxFeed }

\* ------------------------------------------------------------------ pipeline
\* Whether normalize_firms reads the clock for this feature (the except branch).
ReadsClock(f) == strptime(f.acq_date, f.acq_time) = None

RECURSIVE Elapsed(_, _, _)
\* Milliseconds the clock has advanced when feature k of the thermal feed is
\* normalized: ticks[j] elapsed before the j-th feature that reads the clock.
Elapsed(data, ticks, k) ==
    IF k = 0 THEN 0
    ELSE Elapsed(data, ticks, k - 1)
         + (IF Kept(data[k]) /\ ReadsClock(data[k]) THEN ticks[k] ELSE 0)

RECURSIVE SelectIdx(_, _)
\* The indices of the features of a list that pass the filter, in order.
SelectIdx(data, k) ==
    IF k = 0 THEN << >>
    ELSE IF Kept(data[k]) THEN Append(SelectIdx(data, k - 1), k)
    ELSE SelectIdx(data, k - 1)

\* [normalize_usgs(f) for f in eq_data if in_india(...)]
Earthquakes(data) ==
    LET idx == SelectIdx(data, Len(data))
    IN  [j \in 1..Len(idx) |-> normalize_usgs(data[idx[j]])]

\* [normalize_firms(f) for f in fire_data if in_india(...)]
Fires(data, ticks) ==
    LET idx == SelectIdx(data, Len(data))
    IN  [j \in 1..Len(idx) |->
            normalize_firms(data[idx[j]], clock + Elapsed(data, ticks, idx[j]))]

Raises(events) == \E k \in 1..Len(events) : events[k].type = "Raise"

NoPrev == [valid |-> FALSE, eq |-> << >>, fire |-> << >>, store |-> << >>]

Init ==
    /\ pc = "fetch_eq"
    /\ eq_data = << >>
    /\ fire_data = << >>
    /\ all_events = << >>
    /\ i = 0
    /\ inserted = 0
    /\ store = << >>
    /\ clock = Clock0
    /\ cycle = 1
    /\ failed = {}
    /\ store0 = << >>
    /\ prev = NoPrev

\* eq_data = requests.get(USGS_URL).json()["features"]
FetchEq ==
    /\ pc = "fetch_eq"
    /\ \E data \in Feeds(EqPool) :
         /\ eq_data' = data
         /\ pc' = "fetch_fire"
    /\ UNCHANGED <<fire_data, all_events, i, inserted, store, clock, cycle, failed, store0, prev>>

\* requests.get(USGS_URL).json()["features"] raises: nothing catches it, so
\* run_pipeline and the while loop are left and the process ends
FetchEqFails ==
    /\ pc = "fetch_eq"
    /\ pc' = "crashed"
    /\ UNCHANGED <<eq_data, fire_data, all_events, i, inserted, store, clock, cycle, failed, store0, prev>>

\* fire_data = requests.get(FIRMS_URL).json()["features"]
FetchFire ==
    /\ pc = "fetch_fire"
    /\ \E data \in Feeds(FirePool) :
         /\ fire_data' = data
         /\ pc' = "normalize"
    /\ UNCHANGED <<eq_data, all_events, i, inserted, store, clock, cycle, failed, store0, prev>>

FetchFireFails_partial ==
    /\ pc = "fetch_fire"
    /\ pc' = "crashed"
    /\ store' = (IF Len(Earthquakes(eq_data)) > 0 /\ ~Raises(Earthquakes(eq_data))
                   THEN update_one(store, Earthquakes(eq_data)[1]) ELSE store)
    /\ UNCHANGED <<eq_data, fire_data, all_events, i, inserted, clock, cycle, failed, store0, prev>>

\* requests.get(FIRMS_URL).json()["features"] raises
FetchFireFails ==
    /\ pc = "fetch_fire"
    /\ pc' = "crashed"
    /\ UNCHANGED <<eq_data, fire_data, all_events, i, inserted, store, clock, cycle, failed, store0, prev>>

\* earthquakes = [...]; fires = [...]; all_events = earthquakes + fires; then the
\* call of upsert_events sets inserted = 0.  The clock may advance by a
\* millisecond before each read of it.  A feature whose normalization raises
\* ends the process like a failed fetch.
Normalize ==
    /\ pc = "normalize"
    /\ \E ticks \in [1..Len(fire_data) -> {0, 1}] :
         LET events == Earthquakes(eq_data) \o Fires(fire_data, ticks)
         IN  /\ \A k \in 1..Len(fire_data) :
                   ~(Kept(fire_data[k]) /\ ReadsClock(fire_data[k])) => ticks[k] = 0
             /\ clock' = clock + Elapsed(fire_data, ticks, Len(fire_data))
             /\ IF Raises(events)
                  THEN /\ pc' = "crashed"
                       /\ UNCHANGED <<all_events, i, inserted>>
                  ELSE /\ pc' = "upsert"
                       /\ all_events' = events
                       /\ i' = 1
                       /\ inserted' = 0
    /\ UNCHANGED <<eq_data, fire_data, store, cycle, failed, store0, prev>>

UpsertOk_counts_new ==
    /\ pc = "upsert"
    /\ i <= Len(all_events)
    /\ store' = update_one(store, all_events[i])
    /\ inserted' = (IF KeyIn(store, all_events[i]) THEN inserted ELSE inserted + 1)
    /\ i' = i + 1
    /\ UNCHANGED <<pc, eq_data, fire_data, all_events, clock, cycle, failed, store0, prev>>

\* One iteration of the loop of upsert_events whose update_one returns.
UpsertOk ==
    /\ pc = "upsert"
    /\ i <= Len(all_events)
    /\ store' = update_one(store, all_events[i])
    /\ inserted' = inserted + 1
    /\ i' = i + 1
    /\ UNCHANGED <<pc, eq_data, fire_data, all_events, clock, cycle, failed, store0, prev>>

UpsertFails_abort ==
    /\ pc = "upsert"
    /\ i <= Len(all_events)
    /\ failed' = failed \cup {i}
    /\ pc' = "crashed"
    /\ UNCHANGED <<eq_data, fire_data, all_events, i, inserted, store, clock, cycle, store0, prev>>

\* One iteration whose update_one raises: the except branch prints and goes on.
UpsertFails ==
    /\ pc = "upsert"
    /\ i <= Len(all_events)
    /\ failed' = failed \cup {i}
    /\ i' = i + 1
    /\ UNCHANGED <<pc, eq_data, fire_data, all_events, inserted, store, clock, cycle, store0, prev>>

\* The loop is over: upsert_events is about to execute `return inserted`.
LoopDone == pc = "upsert" /\ i > Len(all_events)

\* return inserted; run_pipeline prints it and returns, its locals are gone;
\* the loop prints and reaches time.sleep(3600)
Return ==
    /\ LoopDone
    /\ pc' = "sleep"
    /\ eq_data' = << >>
    /\ fire_data' = << >>
    /\ all_events' = << >>
    /\ i' = 0
    /\ inserted' = 0
    /\ failed' = {}
    /\ UNCHANGED <<store, clock, cycle, store0, prev>>

\* time.sleep(3600) returns and the loop calls run_pipeline again
Wake ==
    /\ pc = "sleep"
    /\ cycle < MaxCycles
    /\ pc' = "fetch_eq"
    /\ clock' = clock + SleepSeconds * 1000
    /\ cycle' = cycle + 1
    /\ store0' = store
    /\ UNCHANGED <<eq_data, fire_data, all_events, i, inserted, store, failed, prev>>

Next ==
    \/ FetchEq
    \/ FetchEqFails
    \/ FetchFire
    \/ FetchFireFails
    \/ Normalize
    \/ UpsertOk
    \/ UpsertFails
    \/ Return
    \/ Wake

Spec == Init /\ [][Next]_vars

\* ------------------------------------------------------------------ repeated feeds
\* The same loop in an environment where no request and no write fails and
\* where, from the second cycle on, each feed returns what it returned in the
\* cycle before; prev records that cycle's feeds and final store.
FetchEqRepeat ==
    /\ pc = "fetch_eq"
    /\ \E data \in (IF prev.valid THEN {prev.eq} ELSE Feeds(EqPool)) :
         /\ eq_data' = data
         /\ pc' = "fetch_fire"
    /\ UNCHANGED <<fire_data, all_events, i, inserted, store, clock, cycle, failed, store0, prev>>

FetchFireRepeat ==
    /\ pc = "fetch_fire"
    /\ \E data \in (IF prev.valid THEN {prev.fire} ELSE Feeds(FirePool)) :
         /\ fire_data' = data
         /\ pc' = "normalize"
    /\ UNCHANGED <<eq_data, all_events, i, inserted, store, clock, cycle, failed, store0, prev>>

ReturnRecord ==
    /\ LoopDone
    /\ pc' = "sleep"
    /\ prev' = [valid |-> TRUE, eq |-> eq_data, fire |-> fire_data, store |-> store]
    /\ eq_data' = << >>
    /\ fire_data' = << >>
    /\ all_events' = << >>
    /\ i' = 0
    /\ inserted' = 0
    /\ failed' = {}
    /\ UNCHANGED <<store, clock, cycle, store0>>

NextRepeat ==
    \/ FetchEqRepeat
    \/ FetchFireRepeat
    \/ Normalize
    \/ UpsertOk
    \/ ReturnRecord
    \/ Wake

SpecRepeat == Init /\ [][NextRepeat]_vars

\* ------------------------------------------------------------------ properties
TypeOK == pc \in {"fetch_eq", "fetch_fire", "normalize", "upsert", "sleep", "crashed"}

\* C1: no two stored records have both the same coords and the same time.
C1_UniqueKey ==
    \A j, k \in 1..Len(store) : j # k => ~Matches(store[j], store[k])

\* A second cycle's batch with two records of one key and a failed write has
\* been processed, and the store holds several records.
C1_Witness ==
    /\ LoopDone
    /\ cycle = 2
    /\ failed # {}
    /\ \E a, b \in 1..Len(all_events) : a < b /\ Matches(all_events[a], all_events[b])
    /\ Len(store) >= 2

\* C2: no step updates or deletes a stored record: every record stays where it
\* is with its first payload, a write whose key is already stored changes
\* nothing, and the only change ever made is appending the record being written.
C2_InsertOnly ==
    [][ /\ \A k \in 1..Len(store) : k <= Len(store') /\ store'[k] = store[k]
        /\ (pc = "upsert" /\ i <= Len(all_events) /\ KeyIn(store, all_events[i]))
              => store' = store
        /\ store' # store
              => /\ pc = "upsert" /\ i <= Len(all_events)
                 /\ store' = Append(store, all_events[i]) ]_vars

\* In a later cycle a record was written whose key is stored with another payload.
C2_Witness ==
    /\ pc = "upsert"
    /\ cycle = 2
    /\ i > 1
    /\ (i - 1) \notin failed
    /\ \E k \in 1..Len(store0) :
          Matches(store0[k], all_events[i - 1]) /\ store0[k] # all_events[i - 1]

\* C3: when a cycle completes with the feeds of the cycle before and no write
\* failed, the store is what it was after the cycle before.
C3_Idempotent ==
    (LoopDone /\ prev.valid /\ eq_data = prev.eq /\ fire_data = prev.fire /\ failed = {})
        => store = prev.store

C5_FailureDoesNotAbort ==
    [][ /\ (pc = "upsert" /\ i <= Len(all_events))
              => (pc' = "upsert" /\ i' = i + 1 /\ all_events' = all_events)
        /\ (pc = "upsert" /\ i <= Len(all_events) /\ failed' # failed)
              => (store' = store /\ failed' = failed \cup {i})
        /\ LoopDone'
              => \A k \in 1..Len(all_events') :
                    k \notin failed' => KeyIn(store', all_events'[k]) ]_vars

\* A write failed and a later record of the batch was newly stored.
C5_Witness ==
    /\ LoopDone
    /\ \E k \in failed : \E m \in (k + 1)..Len(all_events) :
          /\ m \notin failed
          /\ KeyIn(store, all_events[m])
          /\ ~KeyIn(store0, all_events[m])

\* C6: when a cycle is aborted by a failed request (or by a feature that cannot
\* be normalized), upsert_events was not entered and the store is what it was
\* when the cycle began.
C6_AbortWritesNothing ==
    pc = "crashed" => (store = store0 /\ i = 0 /\ inserted = 0)

\* The seismic request returned a feature inside the box and the thermal
\* request failed, in a cycle that began with a non-empty store.
C6_Witness ==
    /\ pc = "crashed"
    /\ eq_data # << >>
    /\ Len(Earthquakes(eq_data)) > 0
    /\ ~Raises(Earthquakes(eq_data))
    /\ fire_data = << >>
    /\ store0 # << >>

\* C7: the loop has no terminal state: the process is always running a cycle
\* or sleeping between two cycles.
C7_NoTerminalState == pc \in {"fetch_eq", "fetch_fire", "normalize", "upsert", "sleep"}

\* The box as the specification states it, on a [lon, lat, ...] list.
InBox(c) == 6 <= c[2] /\ c[2] <= 37 /\ 68 <= c[1] /\ c[1] <= 97

FeatureInBox(f) == InBox(f.coordinates)

LonLat(seq) == [k \in 1..Len(seq) |-> <<seq[k].coordinates[1], seq[k].coordinates[2]>>]

\* C8: the batch handed to the writer holds, in order, exactly the features
\* with 6 <= lat <= 37 and 68 <= lon <= 97, each with coords = [lon, lat]; and
\* every stored record lies in the box.
C8_BoxFilter ==
    /\ pc = "upsert" =>
          [k \in 1..Len(all_events) |-> all_events[k].coords]
             = LonLat(SelectSeq(eq_data, FeatureInBox)) \o LonLat(SelectSeq(fire_data, FeatureInBox))
    /\ \A k \in 1..Len(store) : InBox(store[k].coords)

\* A feed held a feature on the corner (97, 37) and one just outside it, and
\* the corner is stored.
C8_Witness ==
    /\ LoopDone
    /\ \E k \in 1..Len(fire_data) : fire_data[k].coordinates = <<97, 37>>
    /\ \E k \in 1..Len(fire_data) : fire_data[k].coordinates = <<98, 37>>
    /\ \E k \in 1..Len(eq_data) : eq_data[k].coordinates = <<67, 6, 10>>
    /\ \E k \in 1..Len(store) : store[k].coords = <<97, 37>>
    /\ \E k \in 1..Len(store) : store[k].coords = <<68, 6>>

\* The acq_date/acq_time of a thermal feature do not match "%Y-%m-%d %H%M".
Unparseable(f) ==
    \/ f.acq_date = None
    \/ f.acq_time = None
    \/ f.acq_date[1] \notin {"1970-01-02", "1970-01-03"}
    \/ Len(f.acq_time[1]) = 4 /\ f.acq_time[1][1] * 10 + f.acq_time[1][2] > 23

\* C9: normalizing a batch whose thermal features have unparseable dates does
\* not end the cycle (given that every kept seismic feature has its time): the
\* writer is entered, and each such feature inside the box is in the batch as
\* a fire record whose time is an instant of the clock during the step.
C9_DateFallback ==
    [][ (pc = "normalize" /\ ~Raises(Earthquakes(eq_data)))
           => /\ pc' = "upsert"
              /\ \A k \in 1..Len(fire_data) :
                    (FeatureInBox(fire_data[k]) /\ Unparseable(fire_data[k]))
                       => \E j \in 1..Len(all_events') :
                             /\ all_events'[j].type = "fire"
                             /\ all_events'[j].coords = <<fire_data[k].coordinates[1], fire_data[k].coordinates[2]>>
                             /\ clock <= all_events'[j].time
                             /\ all_events'[j].time <= clock' ]_vars

\* The first thermal feature had an unparseable date, a later one was
\* normalized too, and the record with the clock's time is stored.
C9_Witness ==
    /\ LoopDone
    /\ Len(fire_data) >= 2
    /\ FeatureInBox(fire_data[1]) /\ Unparseable(fire_data[1])
    /\ FeatureInBox(fire_data[2]) /\ ~Unparseable(fire_data[2])
    /\ \E k \in 1..Len(store) : store[k].type = "fire" /\ store[k].time >= Clock0
    /\ \E k \in 1..Len(store) : store[k].type = "fire" /\ store[k].time = T0

\* C10: each fire record of the batch has magnitude = brightness / 100 when the
\* feature has a brightness and no magnitude when it has none, and place =
\* satellite when the feature has a satellite and "Unknown area" when not.
C10_MagnitudeAndPlace ==
    pc = "upsert" =>
       LET kept == SelectSeq(fire_data, FeatureInBox)
           off == Len(all_events) - Len(kept)
       IN  \A j \in 1..Len(kept) :
              /\ all_events[off + j].magnitude =
                    (IF kept[j].brightness # None
                       THEN Some(kept[j].brightness[1] \div 100) ELSE None)
              /\ all_events[off + j].place =
                    (IF kept[j].satellite # None
                       THEN kept[j].satellite ELSE Some("Unknown area"))

====
